---- MODULE Spec2Model ----
(***************************************************************************)
(* Model of demo-server/src/oidc_provider/mod.rs: a test identity provider *)
(* with three handlers (discovery, jwks, tokens) and run_server, which     *)
(* spawns the HTTP server task, sleeps and returns the issuer URI.         *)
(*                                                                         *)
(* Key sources are embedded with include_bytes! and are parsed inside the  *)
(* handlers, each parse followed by unwrap().  A failed unwrap() panics    *)
(* the task serving that request; the server keeps serving other requests. *)
(***************************************************************************)
EXTENDS Naturals, Sequences, FiniteSets, TLC

(* ---- bounds ---- *)
MaxReq == 2            \* number of requests served in one behaviour
MaxCorrupt == 1        \* number of key sources that may be unparsable

Req == 1..MaxReq

(* ---- constants of the program ---- *)
ISSUER_URI == "http://localhost:3001"

KeyFiles ==
  {"jwtRS256.key", "private_rsa_key_pkcs8.pem", "ec256-private.pem",
   "private_ecdsa_key.pem", "ed25519-private.pem", "private_ed25519_key.pem"}

\* what a key source can hold: a key of its declared family, bytes that are
\* not a PEM document of that family, or a well-formed PEM whose key content
\* is not a usable key
FileStatus == {"valid", "badpem", "badkey"}

VARIABLES
  keyFiles,   \* key source -> FileStatus, fixed at build time
  main,       \* position of the thread calling run_server
  returned,   \* <<>> or <<value returned by run_server>>
  routes,     \* the Router: path -> handler
  server,     \* state of the spawned server task
  req,        \* request -> [ep, out, pc]: handler, outcome, statements executed
  kset,       \* request -> local JwkSet.keys of the jwks handler
  ekeys,      \* request -> local EncodingKeys of the tokens handler
  toks,       \* request -> local tokens of the tokens handler
  resp,       \* request -> <<>> or <<response body>>
  loads       \* key source -> number of times it has been parsed

vars == <<keyFiles, main, returned, routes, server, req, kset, ekeys, toks, resp, loads>>

(* ---- key material and cryptographic primitives ---- *)

\* content of a key source: one key pair of the declared family per file
KeyMaterial(f) == [family |-> CASE f \in {"jwtRS256.key", "private_rsa_key_pkcs8.pem"} -> "RSA"
                                [] f \in {"ec256-private.pem", "private_ecdsa_key.pem"} -> "EC"
                                [] OTHER -> "OKP",
                   id |-> f]

PrivateHalf(m) == <<"priv", m.id>>
PublicHalf(priv) == <<"pub", priv[2]>>

AlgFamily(alg) == CASE alg = "RS256" -> "RSA"
                    [] alg = "ES256" -> "EC"
                    [] alg = "EdDSA" -> "OKP"
                    [] OTHER -> "none"

\* from_pem without validation of the parsed bytes
from_pem_unchecked(f, family) ==
  <<[family |-> family, priv |-> PrivateHalf(KeyMaterial(f))]>>

\* XxKeyPair::from_pem(bytes): <<>> on Err, <<keypair>> on Ok
from_pem(f, family) ==
  IF keyFiles[f] = "valid" /\ KeyMaterial(f).family = family
  THEN <<[family |-> family, priv |-> PrivateHalf(KeyMaterial(f))]>>
  ELSE <<>>

to_jwk_public_key(kp) == [kty |-> kp.family, pub |-> PublicHalf(kp.priv)]

set_key_id(pk, v) == [kid |-> v] @@ pk
set_algorithm(pk, v) == [alg |-> v] @@ pk
set_key_use(pk, v) == [use |-> v] @@ pk

\* EncodingKey::from_xx_pem(bytes): checks the PEM structure and family only
from_xx_pem(f, family) ==
  IF keyFiles[f] # "badpem" /\ KeyMaterial(f).family = family
  THEN <<[family |-> family, priv |-> PrivateHalf(KeyMaterial(f)), usable |-> keyFiles[f] = "valid"]>>
  ELSE <<>>

Sign(priv, alg, msg) == [by |-> priv, alg |-> alg, over |-> msg]

\* encode that signs without checking the key
encode_unchecked(header, claims, key) ==
  <<[header |-> header, claims |-> claims,
     sig |-> Sign(key.priv, header.alg, <<header, claims>>)]>>

\* jsonwebtoken::encode(header, claims, key): <<>> on Err, <<token>> on Ok;
\* a token is the three segments header, claims, signature
encode(header, claims, key) ==
  IF key.family = AlgFamily(header.alg) /\ key.usable
  THEN <<[header |-> header, claims |-> claims,
          sig |-> Sign(key.priv, header.alg, <<header, claims>>)]>>
  ELSE <<>>

\* verification of a token against one entry of a key set
Verify(tok, jwk) ==
  /\ jwk.alg = tok.header.alg
  /\ jwk.kty = AlgFamily(tok.header.alg)
  /\ tok.sig.alg = tok.header.alg
  /\ tok.sig.over = <<tok.header, tok.claims>>
  /\ PublicHalf(tok.sig.by) = jwk.pub

(* ---- discovery ---- *)

\* discovery document advertising a path that is not routed
OidcDiscoveryKeysPath == [issuer |-> ISSUER_URI, jwks_uri |-> ISSUER_URI \o "/keys"]

OidcDiscovery == [issuer |-> ISSUER_URI, jwks_uri |-> ISSUER_URI \o "/jwks"]

(* ---- jwks: the six blocks of the handler, in program order ---- *)

\* copy-paste slip: the second RSA block keeps the key id of the first
JwksBlocksCopyPaste ==
  << [file |-> "jwtRS256.key",              family |-> "RSA", kid |-> "key-rsa", alg |-> "RS256", use |-> "sig"],
     [file |-> "private_rsa_key_pkcs8.pem", family |-> "RSA", kid |-> "key-rsa", alg |-> "RS256", use |-> "sig"],
     [file |-> "ec256-private.pem",         family |-> "EC",  kid |-> "key-ec",  alg |-> "ES256", use |-> "sig"],
     [file |-> "private_ecdsa_key.pem",     family |-> "EC",  kid |-> "ec01",    alg |-> "ES256", use |-> "sig"],
     [file |-> "ed25519-private.pem",       family |-> "OKP", kid |-> "key-ed",  alg |-> "EdDSA", use |-> "sig"],
     [file |-> "private_ed25519_key.pem",   family |-> "OKP", kid |-> "ed01",    alg |-> "EdDSA", use |-> "sig"] >>

\* the two RSA blocks read each other's key source
JwksBlocksSwappedFiles ==
  << [file |-> "private_rsa_key_pkcs8.pem", family |-> "RSA", kid |-> "key-rsa", alg |-> "RS256", use |-> "sig"],
     [file |-> "jwtRS256.key",              family |-> "RSA", kid |-> "rsa01",   alg |-> "RS256", use |-> "sig"],
     [file |-> "ec256-private.pem",         family |-> "EC",  kid |-> "key-ec",  alg |-> "ES256", use |-> "sig"],
     [file |-> "private_ecdsa_key.pem",     family |-> "EC",  kid |-> "ec01",    alg |-> "ES256", use |-> "sig"],
     [file |-> "ed25519-private.pem",       family |-> "OKP", kid |-> "key-ed",  alg |-> "EdDSA", use |-> "sig"],
     [file |-> "private_ed25519_key.pem",   family |-> "OKP", kid |-> "ed01",    alg |-> "EdDSA", use |-> "sig"] >>

JwksBlocks ==
  << [file |-> "jwtRS256.key",              family |-> "RSA", kid |-> "key-rsa", alg |-> "RS256", use |-> "sig"],
     [file |-> "private_rsa_key_pkcs8.pem", family |-> "RSA", kid |-> "rsa01",   alg |-> "RS256", use |-> "sig"],
     [file |-> "ec256-private.pem",         family |-> "EC",  kid |-> "key-ec",  alg |-> "ES256", use |-> "sig"],
     [file |-> "private_ecdsa_key.pem",     family |-> "EC",  kid |-> "ec01",    alg |-> "ES256", use |-> "sig"],
     [file |-> "ed25519-private.pem",       family |-> "OKP", kid |-> "key-ed",  alg |-> "EdDSA", use |-> "sig"],
     [file |-> "private_ed25519_key.pem",   family |-> "OKP", kid |-> "ed01",    alg |-> "EdDSA", use |-> "sig"] >>

\* a key vector shared between requests instead of a fresh local one
SharedKset(r) ==
  IF \E q \in Req : q # r /\ kset[q] # <<>>
  THEN kset[CHOOSE q \in Req : q # r /\ kset[q] # <<>>]
  ELSE <<>>

\* let mut kset = JwkSet { keys: Vec::new() }
NewKset(r) == <<>>

(* ---- tokens ---- *)

\* header built with a fixed key id instead of the argument
build_header_fixed_kid(alg, kid) == [typ |-> "JWT", alg |-> alg, kid |-> "kid"]

build_header(alg, kid) == [typ |-> "JWT", alg |-> alg, kid |-> kid]

Claims == [iss |-> ISSUER_URI, sub |-> "b@b.com", exp |-> 2000000000, nbf |-> 1516239022]

\* the RSA token signed with the secondary RSA key source
TokenKeysSecondary ==
  << [file |-> "private_rsa_key_pkcs8.pem", family |-> "RSA"],
     [file |-> "ec256-private.pem",         family |-> "EC"],
     [file |-> "ed25519-private.pem",       family |-> "OKP"] >>

TokenKeys ==
  << [file |-> "jwtRS256.key",        family |-> "RSA"],
     [file |-> "ec256-private.pem",   family |-> "EC"],
     [file |-> "ed25519-private.pem", family |-> "OKP"] >>

\* the EC and Ed25519 tokens carry each other's key id
TokenHeadersSwapped ==
  << build_header("RS256", "key-rsa"),
     build_header("ES256", "key-ed"),
     build_header("EdDSA", "key-ec") >>

TokenHeaders ==
  << build_header("RS256", "key-rsa"),
     build_header("ES256", "key-ec"),
     build_header("EdDSA", "key-ed") >>

TokenLabels == <<"rsa", "ec", "ed">>

TokensBody(ts) == [l \in {TokenLabels[i] : i \in 1..Len(TokenLabels)} |->
                     ts[CHOOSE i \in 1..Len(TokenLabels) : TokenLabels[i] = l]]

(* ---- run_server ---- *)

Router == [p \in {"/.well-known/openid-configuration", "/jwks", "/tokens"} |->
             CASE p = "/.well-known/openid-configuration" -> "discovery"
               [] p = "/jwks" -> "jwks"
               [] p = "/tokens" -> "tokens"]

Idle == [ep |-> "none", out |-> "idle", pc |-> 0]

Init ==
  /\ keyFiles \in [KeyFiles -> FileStatus]
  /\ Cardinality({f \in KeyFiles : keyFiles[f] # "valid"}) <= MaxCorrupt
  /\ main = "init"
  /\ returned = <<>>
  /\ routes = <<>>
  /\ server = "none"
  /\ req = [r \in Req |-> Idle]
  /\ kset = [r \in Req |-> <<>>]
  /\ ekeys = [r \in Req |-> <<>>]
  /\ toks = [r \in Req |-> <<>>]
  /\ resp = [r \in Req |-> <<>>]
  /\ loads = [f \in KeyFiles |-> 0]

\* Router::new().route(..) and tokio::spawn(..)
Spawn ==
  /\ main = "init"
  /\ main' = "sleeping"
  /\ routes' = Router
  /\ server' = "spawned"
  /\ UNCHANGED <<keyFiles, returned, req, kset, ekeys, toks, resp, loads>>

\* thread::sleep(200ms) elapses; run_server returns ISSUER_URI
Return ==
  /\ main = "sleeping"
  /\ main' = "returned"
  /\ returned' = <<ISSUER_URI>>
  /\ UNCHANGED <<keyFiles, routes, server, req, kset, ekeys, toks, resp, loads>>

\* the spawned task is scheduled and Server::bind succeeds
ServerBind ==
  /\ server = "spawned"
  /\ server' = "bound"
  /\ UNCHANGED <<keyFiles, main, returned, routes, req, kset, ekeys, toks, resp, loads>>

\* the spawned task is scheduled and Server::bind panics (address in use)
ServerBindFail ==
  /\ server = "spawned"
  /\ server' = "bindfailed"
  /\ UNCHANGED <<keyFiles, main, returned, routes, req, kset, ekeys, toks, resp, loads>>

\* a connection is accepted and routed to its handler
Accept(r, path) ==
  /\ server = "bound"
  /\ req[r].ep = "none"
  /\ \A q \in Req : q < r => req[q].ep # "none"
  /\ path \in DOMAIN routes
  /\ req' = [req EXCEPT ![r] = [ep |-> routes[path], out |-> "running", pc |-> 0]]
  /\ kset' = [kset EXCEPT ![r] = NewKset(r)]
  /\ UNCHANGED <<keyFiles, main, returned, routes, server, ekeys, toks, resp, loads>>

Discovery(r) ==
  /\ req[r].ep = "discovery" /\ req[r].out = "running"
  /\ resp' = [resp EXCEPT ![r] = <<OidcDiscovery>>]
  /\ req' = [req EXCEPT ![r].out = "ok"]
  /\ UNCHANGED <<keyFiles, main, returned, routes, server, kset, ekeys, toks, loads>>

\* one block of jwks: from_pem(..).unwrap(), to_jwk_public_key, set_*, push
JwksLoad(r) ==
  /\ req[r].ep = "jwks" /\ req[r].out = "running"
  /\ req[r].pc < Len(JwksBlocks)
  /\ LET b == JwksBlocks[req[r].pc + 1]
         kp == from_pem(b.file, b.family)
     IN /\ loads' = [loads EXCEPT ![b.file] = @ + 1]
        /\ IF kp = <<>>
           THEN /\ req' = [req EXCEPT ![r].out = "panic", ![r].pc = @ + 1]
                /\ kset' = kset
           ELSE /\ kset' = [kset EXCEPT ![r] = Append(@,
                      set_key_use(set_algorithm(set_key_id(to_jwk_public_key(kp[1]), b.kid), b.alg), b.use))]
                /\ req' = [req EXCEPT ![r].pc = @ + 1]
  /\ UNCHANGED <<keyFiles, main, returned, routes, server, ekeys, toks, resp>>

\* Json(json!(kset))
JwksRespond(r) ==
  /\ req[r].ep = "jwks" /\ req[r].out = "running"
  /\ req[r].pc = Len(JwksBlocks)
  /\ resp' = [resp EXCEPT ![r] = <<kset[r]>>]
  /\ req' = [req EXCEPT ![r].out = "ok"]
  /\ UNCHANGED <<keyFiles, main, returned, routes, server, kset, ekeys, toks, loads>>

\* EncodingKey::from_xx_pem(..).unwrap()
TokensLoad(r) ==
  /\ req[r].ep = "tokens" /\ req[r].out = "running"
  /\ req[r].pc < Len(TokenKeys)
  /\ LET k == TokenKeys[req[r].pc + 1]
         ek == from_xx_pem(k.file, k.family)
     IN /\ loads' = [loads EXCEPT ![k.file] = @ + 1]
        /\ IF ek = <<>>
           THEN /\ req' = [req EXCEPT ![r].out = "panic", ![r].pc = @ + 1]
                /\ ekeys' = ekeys
           ELSE /\ ekeys' = [ekeys EXCEPT ![r] = Append(@, ek[1])]
                /\ req' = [req EXCEPT ![r].pc = @ + 1]
  /\ UNCHANGED <<keyFiles, main, returned, routes, server, kset, toks, resp>>

\* encode(&build_header(..), &claims, &key).unwrap()
TokensEncode(r) ==
  /\ req[r].ep = "tokens" /\ req[r].out = "running"
  /\ req[r].pc >= Len(TokenKeys)
  /\ req[r].pc < Len(TokenKeys) + Len(TokenHeaders)
  /\ LET i == req[r].pc - Len(TokenKeys) + 1
         t == encode(TokenHeaders[i], Claims, ekeys[r][i])
     IN IF t = <<>>
        THEN /\ req' = [req EXCEPT ![r].out = "panic", ![r].pc = @ + 1]
             /\ toks' = toks
        ELSE /\ toks' = [toks EXCEPT ![r] = Append(@, t[1])]
             /\ req' = [req EXCEPT ![r].pc = @ + 1]
  /\ UNCHANGED <<keyFiles, main, returned, routes, server, kset, ekeys, resp, loads>>

\* Json(json!({"rsa": .., "ec": .., "ed": ..}))
TokensRespond(r) ==
  /\ req[r].ep = "tokens" /\ req[r].out = "running"
  /\ req[r].pc = Len(TokenKeys) + Len(TokenHeaders)
  /\ resp' = [resp EXCEPT ![r] = <<TokensBody(toks[r])>>]
  /\ req' = [req EXCEPT ![r].out = "ok"]
  /\ UNCHANGED <<keyFiles, main, returned, routes, server, kset, ekeys, toks, loads>>

Next ==
  \/ Spawn
  \/ Return
  \/ ServerBind
  \/ ServerBindFail
  \/ \E r \in Req, path \in {"/.well-known/openid-configuration", "/jwks", "/tokens"} : Accept(r, path)
  \/ \E r \in Req : Discovery(r)
  \/ \E r \in Req : JwksLoad(r)
  \/ \E r \in Req : JwksRespond(r)
  \/ \E r \in Req : TokensLoad(r)
  \/ \E r \in Req : TokensEncode(r)
  \/ \E r \in Req : TokensRespond(r)

Spec == Init /\ [][Next]_vars

(* ======================= properties ======================= *)

JwksDone(r) == req[r].ep = "jwks" /\ Len(resp[r]) = 1
TokensDone(r) == req[r].ep = "tokens" /\ Len(resp[r]) = 1
DiscoveryDone(r) == req[r].ep = "discovery" /\ Len(resp[r]) = 1

ExpectedKids == <<"key-rsa", "rsa01", "key-ec", "ec01", "key-ed", "ed01">>
ExpectedAlgs == <<"RS256", "RS256", "ES256", "ES256", "EdDSA", "EdDSA">>
ExpectedKty == <<"RSA", "RSA", "EC", "EC", "OKP", "OKP">>
PrimaryFiles == {"jwtRS256.key", "ec256-private.pem", "ed25519-private.pem"}
SomeCorrupt == \E f \in KeyFiles : keyFiles[f] # "valid"

\* C1: every key set returned by jwks has exactly six entries, with key ids
\* key-rsa, rsa01, key-ec, ec01, key-ed, ed01 in this order (pairwise
\* distinct), use "sig", and the algorithm and key type of its family.
C1_JwksShape ==
  \A r \in Req : JwksDone(r) =>
    LET ks == resp[r][1] IN
      /\ Len(ks) = 6
      /\ \A i \in 1..Len(ks) :
           /\ DOMAIN ks[i] = {"kid", "alg", "use", "kty", "pub"}
           /\ ks[i].kid = ExpectedKids[i]
           /\ ks[i].alg = ExpectedAlgs[i]
           /\ ks[i].kty = ExpectedKty[i]
           /\ ks[i].use = "sig"
      /\ \A i, j \in 1..Len(ks) : ks[i].kid = ks[j].kid => i = j

C1_Witness == \E r \in Req : JwksDone(r)

\* C2: every response of tokens has exactly the labels rsa, ec, ed; each
\* header has typ JWT and (alg, kid) = (RS256, key-rsa), (ES256, key-ec),
\* (EdDSA, key-ed); all three carry the fixed claim set.
C2_TokensShape ==
  \A r \in Req : TokensDone(r) =>
    LET b == resp[r][1] IN
      /\ DOMAIN b = {"rsa", "ec", "ed"}
      /\ \A l \in DOMAIN b : b[l].header.typ = "JWT"
      /\ <<b["rsa"].header.alg, b["rsa"].header.kid>> = <<"RS256", "key-rsa">>
      /\ <<b["ec"].header.alg, b["ec"].header.kid>> = <<"ES256", "key-ec">>
      /\ <<b["ed"].header.alg, b["ed"].header.kid>> = <<"EdDSA", "key-ed">>
      /\ \A l \in DOMAIN b :
           b[l].claims = [iss |-> "http://localhost:3001", sub |-> "b@b.com",
                          exp |-> 2000000000, nbf |-> 1516239022]

C2_Witness == \E r \in Req : TokensDone(r)

\* C3: every key id in the header of an issued token is the key id of an
\* entry of every key set that a jwks request has returned.
C3_KidInKeySet ==
  \A r, q \in Req : (TokensDone(r) /\ JwksDone(q)) =>
    \A l \in DOMAIN resp[r][1] :
      \E i \in 1..Len(resp[q][1]) : resp[q][1][i].kid = resp[r][1][l].header.kid

C3_Witness == \E r, q \in Req : TokensDone(r) /\ JwksDone(q)

\* C4: an issued token verifies against the entry of a returned key set
\* that has the token's key id, and against none of the other entries.
C4_VerifiesOnlyAgainstOwnKey ==
  \A r, q \in Req : (TokensDone(r) /\ JwksDone(q)) =>
    \A l \in DOMAIN resp[r][1] :
      LET t == resp[r][1][l]
          ks == resp[q][1]
      IN /\ \E i \in 1..Len(ks) : ks[i].kid = t.header.kid
         /\ \A i \in 1..Len(ks) : Verify(t, ks[i]) <=> (ks[i].kid = t.header.kid)

C4_Witness ==
  \E r, q \in Req : /\ TokensDone(r) /\ JwksDone(q)
                    /\ \E i \in 1..Len(resp[q][1]) : Verify(resp[r][1]["ec"], resp[q][1][i])
                    /\ \E i \in 1..Len(resp[q][1]) : ~Verify(resp[r][1]["ec"], resp[q][1][i])

C6_BoundBeforeReturn == main = "returned" => server = "bound"

StartedUsing(f) ==
  Cardinality({r \in Req : \/ req[r].ep = "jwks"
                           \/ req[r].ep = "tokens" /\ f \in PrimaryFiles})
FinishedUsing(f) ==
  Cardinality({r \in Req : \/ JwksDone(r)
                           \/ TokensDone(r) /\ f \in PrimaryFiles})

OthersUntouched(r) ==
  \A q \in Req : q # r =>
    /\ req'[q] = req[q] /\ kset'[q] = kset[q] /\ ekeys'[q] = ekeys[q]
    /\ toks'[q] = toks[q] /\ resp'[q] = resp[q]

\* C8: any two key sets returned by jwks are identical, in every
\* interleaving with other requests, and a step of one request changes
\* the state of no other request.
C8_JwksDeterministic ==
  /\ [](\A r, q \in Req : (JwksDone(r) /\ JwksDone(q)) => resp[r] = resp[q])
  /\ [][\E r \in Req : OthersUntouched(r)]_vars

C8_Witness ==
  \E r, q \in Req : r # q /\ JwksDone(r) /\ JwksDone(q)

PanickedStays(r) ==
  req[r].out = "panic" =>
    /\ req'[r] = req[r] /\ resp'[r] = resp[r]
    /\ kset'[r] = kset[r] /\ ekeys'[r] = ekeys[r] /\ toks'[r] = toks[r]

\* C9: a tokens request in which a key fails to parse or to sign ends in a
\* panic without a response and is not resumed; a tokens response has
\* three tokens and a jwks response six entries, never fewer.
C9_FailureIsNotSwallowed ==
  /\ [](\A r \in Req :
         /\ (req[r].ep = "tokens" /\ \E f \in PrimaryFiles : keyFiles[f] # "valid")
              => (req[r].out # "ok" /\ (req[r].pc = 6 => req[r].out = "panic"))
         /\ req[r].out = "panic" => resp[r] = <<>>
         /\ TokensDone(r) => Cardinality(DOMAIN resp[r][1]) = 3
         /\ JwksDone(r) => Len(resp[r][1]) = 6
         /\ req[r].out = "ok" <=> Len(resp[r]) = 1)
  /\ [][\A r \in Req : PanickedStays(r)]_vars

C9_Witness ==
  \E r, q \in Req : /\ req[r].ep = "tokens" /\ req[r].out = "panic" /\ req[r].pc > 3
                    /\ req[q].ep = "jwks" /\ req[q].out = "panic"

\* C10: the URI returned by run_server, the issuer of the discovery
\* document and the iss claim of every token are one value; jwks_uri is
\* the issuer followed by the path routed to the jwks handler; discovery
\* never fails and always answers this document.
C10_OneIssuer ==
  /\ returned # <<>> => returned[1] = "http://localhost:3001"
  /\ \A r \in Req :
       /\ req[r].ep = "discovery" => req[r].out # "panic"
       /\ DiscoveryDone(r) =>
            /\ DOMAIN resp[r][1] = {"issuer", "jwks_uri"}
            /\ resp[r][1].issuer = "http://localhost:3001"
            /\ returned # <<>> => resp[r][1].issuer = returned[1]
            /\ \E p \in DOMAIN routes :
                 /\ routes[p] = "jwks" /\ p = "/jwks"
                 /\ resp[r][1].jwks_uri = resp[r][1].issuer \o p
       /\ TokensDone(r) =>
            \A l \in DOMAIN resp[r][1] :
              /\ resp[r][1][l].claims.iss = "http://localhost:3001"
              /\ \A q \in Req : DiscoveryDone(q) => resp[r][1][l].claims.iss = resp[q][1].issuer

C10_Witness ==
  /\ SomeCorrupt
  /\ returned # <<>>
  /\ \E r, q \in Req : DiscoveryDone(r) /\ TokensDone(q)

====
